---- MODULE Spec2Model ----
(***************************************************************************)
(* Model of the App component of src/src/App.tsx: the well/curve selection *)
(* state, the data and interpretation requests in flight, the axis-range   *)
(* cache (axisRangesRef) and the chart handed to Plotly.newPlot by the     *)
(* plot effect.  Every action is one event handler or one promise          *)
(* continuation together with the render and the effects React runs after  *)
(* it.                                                                     *)
(*                                                                         *)
(* Modelled: loadWells, the selectedWell effect, the curve checkboxes,     *)
(* fetchData, runAIInterpretation, sendChatMessage, handleDeleteWell, the  *)
(* plot effect and the cleaned-curve effect.  Not modelled: the upload     *)
(* handler and the depth inputs, which write none of the state below       *)
(* except through loadWells, and a rejected GET /wells.                    *)
(***************************************************************************)
EXTENDS Integers, Sequences, FiniteSets, TLC

VARIABLES
    serverWells,     \* the backend: ids of the wells GET /wells lists
    wells,           \* useState wells: the well ids listed in the <select>
    wellsReqs,       \* number of GET /wells requests in flight
    curves,          \* useState curves: selectable curve names, in order
    selectedWell,    \* useState selectedWell ("" = none)
    selectedCurves,  \* useState selectedCurves: sequence of curve names
    data,            \* useState data: sequence of samples
    loading,         \* useState loading
    interpretation,  \* useState interpretation
    showAI,          \* useState showAI
    axisRanges,      \* axisRangesRef.current: curve name -> <<min, max>> or <<>>
    curveReqs,       \* GET /wells/:id/curves requests in flight, in issue order
    fetchReqs,       \* GET /wells/:id/data requests in flight, in issue order
    interpReqs,      \* POST /wells/:id/interpret requests in flight
    deleteReqs,      \* DELETE /wells/:id requests in flight
    chatMessages,    \* useState chatMessages: the chat log
    chatInput,       \* useState chatInput: a sequence of characters
    chatLoading,     \* useState chatLoading
    chatReqs,        \* POST /wells/:id/chat requests in flight
    chart,           \* arguments of the last Plotly.newPlot on plotRef
    rendered,        \* the last step called Plotly.newPlot on plotRef
    cleanedChart,    \* what the cleanedPlotRef div shows
    cleanedRendered, \* the last step called Plotly.newPlot on cleanedPlotRef
    notified,        \* number of alert() calls made by the last step
    lastEvent        \* the handler or continuation that ran in the last step

chatVars == <<chatMessages, chatInput, chatLoading, chatReqs>>

vars == <<serverWells, wells, wellsReqs, curves, selectedWell, selectedCurves, data, loading,
          interpretation, showAI, axisRanges, curveReqs, fetchReqs, interpReqs,
          deleteReqs, chatVars, chart, rendered, cleanedChart, cleanedRendered,
          notified, lastEvent>>

(***************************************************************************)
(* Bounds of the model.                                                    *)
(***************************************************************************)
MaxPending == 2      \* requests of one kind in flight at once
MaxBatchLen == 1     \* samples in a batch answered to a data request
MaxPlotLen == 2      \* samples in the store of a render drawn by InitPlot
MaxCleaned == 2      \* entries of cleanedCurves in a render drawn by InitClean
MaxSends == 2        \* chat messages the operator sends

(***************************************************************************)
(* The backend: the wells it lists and the curves of each.                 *)
(***************************************************************************)
CurveList(w) ==
    IF w = "W1" THEN <<"Depth", "GR", "RHOB">>
    ELSE IF w = "W2" THEN <<"Time", "GR">>
    ELSE IF w = "W3" THEN <<"Depth", "GR", "RHOB", "NPHI", "DT">>
    ELSE IF w = "W4" THEN <<"Depth">>
    ELSE <<>>

CurveNames == {"Depth", "Time", "GR", "RHOB", "NPHI", "DT"}

Range(s) == {s[i] : i \in 1..Len(s)}

(***************************************************************************)
(* JavaScript values of a sample: a number, null, or undefined (absent).   *)
(***************************************************************************)
Num(v) == <<"number", v>>
Null == <<"object", 0>>
Undefined == <<"undefined", 0>>
TypeOf(v) == v[1]

\* d.values?.[curve]
ValueOf(d, curve) ==
    IF curve \in DOMAIN d.values THEN d.values[curve] ELSE Undefined

Includes(seq, x) == \E i \in 1..Len(seq) : seq[i] = x

\* Array.prototype.map over a sequence, by its index
Depths(d) == IF Len(d) = 0 THEN <<>> ELSE [i \in 1..Len(d) |-> d[i].depth]
Column(d, curve) ==
    IF Len(d) = 0 THEN <<>> ELSE [i \in 1..Len(d) |-> ValueOf(d[i], curve)]

(***************************************************************************)
(* The axis-range cache of the plot effect (App.tsx 178-191).              *)
(***************************************************************************)
NoRanges == [c \in CurveNames |-> <<>>]

\* a cache that is never hit
CachedNever(ranges, curve) == FALSE

\* !axisRangesRef.current[curve] is false once an array is stored
Cached(ranges, curve) == ranges[curve] # <<>>

\* data.map(d => d.values?.[curve]).filter(v => typeof v === "number")
NumericValues(d, curve) ==
    SelectSeq(Column(d, curve), LAMBDA v : TypeOf(v) = "number")

\* Math.min(...values) and Math.max(...values), for a non-empty values
RECURSIVE MathMin(_)
MathMin(values) ==
    IF Len(values) = 1 THEN values[1][2]
    ELSE LET m == MathMin(Tail(values))
         IN  IF values[1][2] < m THEN values[1][2] ELSE m

\* a maximum that stops at the first value
MathMaxFirst(values) == values[1][2]

RECURSIVE MathMax(_)
MathMax(values) ==
    IF Len(values) = 1 THEN values[1][2]
    ELSE LET m == MathMax(Tail(values))
         IN  IF values[1][2] > m THEN values[1][2] ELSE m

\* a test that needs two values
HasValuesTwo(values) == Len(values) > 1

\* values.length > 0
HasValues(values) == Len(values) > 0

\* the body of selectedCurves.forEach(curve => ...) for one curve
UpdateRange(ranges, curve, d) ==
    IF Cached(ranges, curve) THEN ranges
    ELSE LET values == NumericValues(d, curve)
         IN  IF HasValues(values)
             THEN [ranges EXCEPT ![curve] = <<MathMin(values), MathMax(values)>>]
             ELSE ranges

\* the forEach over the first n selected curves, in order
RECURSIVE UpdateRanges(_, _, _, _)
UpdateRanges(ranges, sel, d, n) ==
    IF n = 0 THEN ranges
    ELSE UpdateRange(UpdateRanges(ranges, sel, d, n - 1), sel[n], d)

(***************************************************************************)
(* The trace list of the plot effect (App.tsx 195-238).                    *)
(***************************************************************************)
\* an interpretation without the cleanedCurves field
NoCleaned == [present |-> FALSE, entries |-> <<>>]

NoInterpretation ==
    [isNull |-> TRUE, hasStats |-> FALSE, stats |-> [c \in {} |-> <<>>],
     cleanedCurves |-> NoCleaned]

\* interpretation?.stats?.[curve]?.spikeDepths || []
SpikeDepthsOf(interp, curve) ==
    IF interp.isNull \/ ~interp.hasStats THEN <<>>
    ELSE IF curve \notin DOMAIN interp.stats THEN <<>>
    ELSE IF ~interp.stats[curve].hasSpikeDepths THEN <<>>
    ELSE interp.stats[curve].spikeDepths

\* every trace on the primary axis
TraceAxisPrimary(index) == <<"y", 0>>

\* index === 0 ? "y" : `y${index + 1}`
TraceAxis(index) == IF index = 0 THEN <<"y", 0>> ELSE <<"y", index + 1>>

\* index === 0 ? "yaxis" : `yaxis${index + 1}`
AxisName(index) == IF index = 0 THEN <<"yaxis", 0>> ELSE <<"yaxis", index + 1>>

\* a line that drops the gaps
LineTraceGapless(d, curve, index) ==
    [x |-> Depths(d), y |-> NumericValues(d, curve), mode |-> "lines",
     name |-> <<curve, "">>, yaxis |-> TraceAxis(index)]

LineTrace(d, curve, index) ==
    [x |-> Depths(d), y |-> Column(d, curve), mode |-> "lines",
     name |-> <<curve, "">>, yaxis |-> TraceAxis(index)]

\* markers on every station
MarkerTraceAll(d, curve, index, spikeDepths) ==
    [x |-> Depths(d), y |-> Column(d, curve),
     mode |-> "markers", name |-> <<curve, " Spikes">>,
     yaxis |-> TraceAxis(index)]

MarkerTrace(d, curve, index, spikeDepths) ==
    LET spikePoints == SelectSeq(d, LAMBDA p : Includes(spikeDepths, p.depth))
    IN  [x |-> Depths(spikePoints), y |-> Column(spikePoints, curve),
         mode |-> "markers", name |-> <<curve, " Spikes">>,
         yaxis |-> TraceAxis(index)]

\* what one pass of selectedCurves.forEach((curve, index) => ...) pushes
CurveTraces(d, curve, index, interp) ==
    LET spikeDepths == SpikeDepthsOf(interp, curve)
    IN  <<LineTrace(d, curve, index)>> \o
        (IF Len(spikeDepths) > 0
         THEN <<MarkerTrace(d, curve, index, spikeDepths)>> ELSE <<>>)

RECURSIVE BuildTraces(_, _, _, _)
BuildTraces(d, sel, interp, n) ==
    IF n = 0 THEN <<>>
    ELSE BuildTraces(d, sel, interp, n - 1) \o CurveTraces(d, sel[n], n - 1, interp)

(***************************************************************************)
(* The per-curve axis layout of the plot effect (App.tsx 262-285).         *)
(***************************************************************************)
\* every axis on the left
AxisConfigLeft(curve, index, ranges) ==
    [key |-> AxisName(index), title |-> curve, showgrid |-> (index = 0),
     overlaying |-> IF index = 0 THEN "undefined" ELSE "y",
     side |-> "left",
     autorange |-> FALSE, range |-> ranges[curve], fixedrange |-> TRUE]

AxisConfig(curve, index, ranges) ==
    [key |-> AxisName(index), title |-> curve, showgrid |-> (index = 0),
     overlaying |-> IF index = 0 THEN "undefined" ELSE "y",
     side |-> IF index % 2 = 0 THEN "left" ELSE "right",
     autorange |-> FALSE, range |-> ranges[curve], fixedrange |-> TRUE]

BuildAxes(sel, ranges) ==
    IF Len(sel) = 0 THEN <<>>
    ELSE [i \in 1..Len(sel) |-> AxisConfig(sel[i], i - 1, ranges)]

NoChart == [built |-> FALSE, traces |-> <<>>, axes |-> <<>>]

\* if (!plotRef.current || data.length === 0) return;  plotRef is always mounted
PlotGuard(d, sel) == Len(d) = 0

\* the arguments of Plotly.newPlot(plotRef.current, traces, layout)
PlotOf(d, sel, interp, ranges) ==
    [built |-> TRUE,
     traces |-> BuildTraces(d, sel, interp, Len(sel)),
     axes |-> BuildAxes(sel, ranges)]

\* the plot effect, run after a render in which data, selectedCurves or
\* interpretation changed
PlotEffect(d, sel, interp) ==
    IF PlotGuard(d, sel)
    THEN /\ UNCHANGED <<axisRanges, chart>>
         /\ rendered' = FALSE
    ELSE /\ axisRanges' = UpdateRanges(axisRanges, sel, d, Len(sel))
         /\ chart' = PlotOf(d, sel, interp, axisRanges')
         /\ rendered' = TRUE

\* a render in which none of the plot effect's dependencies changed
NoPlotEffect ==
    /\ UNCHANGED <<axisRanges, chart>>
    /\ rendered' = FALSE

(***************************************************************************)
(* The cleaned-curve effect (App.tsx 301-372) and the div it draws in      *)
(* (App.tsx 495-499).                                                      *)
(***************************************************************************)
NoCleanedChart == [built |-> FALSE, traces |-> <<>>]

\* showAI && interpretation?.cleanedCurves: the div of cleanedPlotRef is
\* mounted
CleanedMounted(show, interp) ==
    show /\ ~interp.isNull /\ interp.cleanedCurves.present

\* !curveData.depths || !curveData.values: a missing field is falsy, an
\* array, empty or not, is truthy
EntrySkipped(curveData) == ~curveData.hasDepths \/ ~curveData.hasValues

CleanedTrace(entry) ==
    [x |-> entry.depths, y |-> entry.values, mode |-> "lines",
     name |-> <<entry.name, " (Cleaned)">>]

\* Object.entries(cleanedCurves).forEach(...), in the order of the entries
RECURSIVE CleanedTraces(_, _)
CleanedTraces(entries, n) ==
    IF n = 0 THEN <<>>
    ELSE CleanedTraces(entries, n - 1) \o
         (IF EntrySkipped(entries[n]) THEN <<>> ELSE <<CleanedTrace(entries[n])>>)

\* the render mounts or unmounts the div, then the effect runs
CleanedEffect(show, interp) ==
    IF ~CleanedMounted(show, interp)
    THEN /\ cleanedChart' = NoCleanedChart
         /\ cleanedRendered' = FALSE
    ELSE LET traces == CleanedTraces(interp.cleanedCurves.entries,
                                     Len(interp.cleanedCurves.entries))
         IN  IF Len(traces) = 0
             THEN /\ UNCHANGED cleanedChart
                  /\ cleanedRendered' = FALSE
             ELSE /\ cleanedChart' = [built |-> TRUE, traces |-> traces]
                  /\ cleanedRendered' = TRUE

\* a render in which interpretation did not change
NoCleanedEffect ==
    /\ UNCHANGED cleanedChart
    /\ cleanedRendered' = FALSE

(***************************************************************************)
(* What the backend may answer.                                            *)
(***************************************************************************)
SeqsUpTo(S, n) == UNION {[1..k -> S] : k \in 0..n}

\* samples over the requested curves: each curve holds a cell or is absent
Samples(cs, depths, cells) ==
    {[depth |-> dp, values |-> f] :
        dp \in depths, f \in UNION {[S -> cells] : S \in SUBSET Range(cs)}}

\* the numbers a curve takes in the model
Values == {5, 15}

Cells == {Null} \cup {Num(v) : v \in Values}

\* batches of stations 1, 2, ... in ascending depth; a cell is a number,
\* null or absent
Batches(cs) ==
    {b \in SeqsUpTo(Samples(cs, 1..MaxBatchLen, Cells), MaxBatchLen) :
        \A i \in 1..Len(b) : b[i].depth = i}

\* batches of one station with every requested curve at the same value
SessionBatches(cs) ==
    {<<[depth |-> 1, values |-> [c \in Range(cs) |-> Num(v)]]>> : v \in Values}

\* one station holding every selectable curve of the well at one value
WellBatch(w) ==
    {<<[depth |-> 1, values |-> [c \in {x \in Range(CurveList(w)) : x # "Depth" /\ x # "Time"} |-> Num(5)]]>>}

\* interpretation results: no stats, or spikes at station 1 of the first curve
Interpretations(cs) ==
    {[isNull |-> FALSE, hasStats |-> FALSE, stats |-> [c \in {} |-> <<>>],
      cleanedCurves |-> NoCleaned],
     [isNull |-> FALSE, hasStats |-> TRUE,
      stats |-> [c \in {cs[1]} |-> [hasSpikeDepths |-> TRUE, spikeDepths |-> <<1>>]],
      cleanedCurves |-> NoCleaned]}

(***************************************************************************)
(* State after the first render and its effects: GET /wells is in flight.  *)
(***************************************************************************)
Ev(op, w, cs) == [op |-> op, well |-> w, curves |-> cs]

InitWith(listed) ==
    /\ serverWells = listed
    /\ wells = <<>>
    /\ wellsReqs = 1
    /\ curves = <<>>
    /\ selectedWell = ""
    /\ selectedCurves = <<>>
    /\ data = <<>>
    /\ loading = FALSE
    /\ interpretation = NoInterpretation
    /\ showAI = FALSE
    /\ axisRanges = NoRanges
    /\ curveReqs = <<>>
    /\ fetchReqs = <<>>
    /\ interpReqs = <<>>
    /\ deleteReqs = <<>>
    /\ chatMessages = <<>>
    /\ chatInput = <<>>
    /\ chatLoading = FALSE
    /\ chatReqs = <<>>
    /\ chart = NoChart
    /\ rendered = FALSE
    /\ cleanedChart = NoCleanedChart
    /\ cleanedRendered = FALSE
    /\ notified = 0
    /\ lastEvent = Ev("mount", "", <<>>)

Remove(seq, i) == SubSeq(seq, 1, i - 1) \o SubSeq(seq, i + 1, Len(seq))

\* c.name !== "Depth" && c.name !== "Time"
Selectable(c) == c # "Depth" /\ c # "Time"

\* the selectedWell effect (App.tsx 37-62): the requests in flight after it ran
WellEffect(w) == IF w = "" THEN curveReqs ELSE Append(curveReqs, w)

\* loadWells resolves (App.tsx 28-31), then the selectedWell effect re-runs
WellsOk(cap) ==
    /\ wellsReqs > 0
    /\ Len(WellEffect(selectedWell)) <= cap
    /\ wellsReqs' = wellsReqs - 1
    /\ wells' = serverWells
    /\ curveReqs' = WellEffect(selectedWell)
    /\ NoPlotEffect
    /\ NoCleanedEffect
    /\ notified' = 0
    /\ lastEvent' = Ev("wellsOk", "", <<>>)
    /\ UNCHANGED <<chatVars, deleteReqs, serverWells, curves, selectedWell, selectedCurves, data, loading,
                   interpretation, showAI, fetchReqs, interpReqs>>

\* <select onChange> (App.tsx 405-408), then the selectedWell effect
SelectWell(w, cap) ==
    /\ w # selectedWell
    /\ Len(WellEffect(w)) <= cap
    /\ selectedWell' = w
    /\ curveReqs' = WellEffect(w)
    /\ NoPlotEffect
    /\ NoCleanedEffect
    /\ notified' = 0
    /\ lastEvent' = Ev("selectWell", w, <<>>)
    /\ UNCHANGED <<chatVars, deleteReqs, serverWells, wells, wellsReqs, curves, selectedCurves, data, loading,
                   interpretation, showAI, fetchReqs, interpReqs>>

\* filteredCurves.length > 0 ? [filteredCurves[0].name] : []
FirstCurve(filteredCurves) ==
    IF Len(filteredCurves) > 0 THEN <<filteredCurves[1]>> ELSE <<>>

\* the .then of GET /wells/:id/curves (App.tsx 47-60), then the plot effect
CurvesOk(i) ==
    LET filteredCurves == SelectSeq(CurveList(curveReqs[i]), Selectable)
    IN  /\ curves' = filteredCurves
        /\ selectedCurves' = FirstCurve(filteredCurves)
        /\ curveReqs' = Remove(curveReqs, i)
        /\ PlotEffect(data, selectedCurves', interpretation)
        /\ NoCleanedEffect
        /\ notified' = 0
        /\ lastEvent' = Ev("curvesOk", curveReqs[i], <<>>)
        /\ UNCHANGED <<chatVars, deleteReqs, serverWells, wells, wellsReqs, selectedWell, data, loading,
                       interpretation, showAI, fetchReqs, interpReqs>>

\* a limit that lets a fourth curve in
SelectionFullLate(sel) == Len(sel) > 3

\* selectedCurves.length >= 3
SelectionFull(sel) == Len(sel) >= 3

\* curve checkbox onChange (App.tsx 444-451); e.target.checked is the negation
\* of the box's checked prop, selectedCurves.includes(c.name)
ToggleCurve(c) ==
    LET checked == ~Includes(selectedCurves, c)
    IN  /\ Includes(curves, c)
        /\ IF checked /\ SelectionFull(selectedCurves)
           THEN /\ UNCHANGED selectedCurves
                /\ NoPlotEffect
           ELSE /\ selectedCurves' =
                     IF checked THEN Append(selectedCurves, c)
                     ELSE SelectSeq(selectedCurves, LAMBDA curve : curve # c)
                /\ PlotEffect(data, selectedCurves', interpretation)
        /\ NoCleanedEffect
        /\ notified' = 0
        /\ lastEvent' = Ev(IF checked THEN "check" ELSE "uncheck", "", <<c>>)
        /\ UNCHANGED <<chatVars, deleteReqs, serverWells, wells, wellsReqs, curves, selectedWell, data, loading,
                       interpretation, showAI, curveReqs, fetchReqs, interpReqs>>

\* !selectedWell || selectedCurves.length === 0
NothingToRequest == selectedWell = "" \/ Len(selectedCurves) = 0

\* the Load Data button is never disabled (App.tsx 479-481)
LoadDisabled == FALSE

\* fetchData up to its await (App.tsx 64-73)
FetchData(cap) ==
    /\ ~LoadDisabled
    /\ IF NothingToRequest
       THEN UNCHANGED <<loading, fetchReqs>>
       ELSE /\ Len(fetchReqs) < cap
            /\ loading' = TRUE
            /\ fetchReqs' = Append(fetchReqs, Ev("data", selectedWell, selectedCurves))
    /\ NoPlotEffect
    /\ NoCleanedEffect
    /\ notified' = 0
    /\ lastEvent' = Ev("fetchData", selectedWell, selectedCurves)
    /\ UNCHANGED <<chatVars, deleteReqs, serverWells, wells, wellsReqs, curves, selectedWell, selectedCurves, data,
                   interpretation, showAI, curveReqs, interpReqs>>

\* fetchData after its await resolves (App.tsx 75, 80), then the plot effect
FetchOk(i, batch) ==
    /\ data' = batch
    /\ loading' = FALSE
    /\ fetchReqs' = Remove(fetchReqs, i)
    /\ PlotEffect(data', selectedCurves, interpretation)
    /\ NoCleanedEffect
    /\ notified' = 0
    /\ lastEvent' = Ev("fetchOk", fetchReqs[i].well, fetchReqs[i].curves)
    /\ UNCHANGED <<chatVars, deleteReqs, serverWells, wells, wellsReqs, curves, selectedWell, selectedCurves,
                   interpretation, showAI, curveReqs, interpReqs>>

\* a failure that empties the store
FetchFailClears(i) ==
    /\ data' = <<>>
    /\ loading' = FALSE
    /\ fetchReqs' = Remove(fetchReqs, i)
    /\ NoPlotEffect
    /\ NoCleanedEffect
    /\ notified' = 1
    /\ lastEvent' = Ev("fetchFail", fetchReqs[i].well, fetchReqs[i].curves)
    /\ UNCHANGED <<chatVars, deleteReqs, serverWells, wells, wellsReqs, curves, selectedWell,
                   selectedCurves, interpretation, showAI, curveReqs, interpReqs>>

\* fetchData after its await rejects (App.tsx 76-80)
FetchFail(i) ==
    /\ loading' = FALSE
    /\ fetchReqs' = Remove(fetchReqs, i)
    /\ NoPlotEffect
    /\ NoCleanedEffect
    /\ notified' = 1
    /\ lastEvent' = Ev("fetchFail", fetchReqs[i].well, fetchReqs[i].curves)
    /\ UNCHANGED <<chatVars, deleteReqs, serverWells, wells, wellsReqs, curves, selectedWell, selectedCurves, data,
                   interpretation, showAI, curveReqs, interpReqs>>

\* runAIInterpretation up to its await (App.tsx 84-95); the button is
\* disabled while data is empty (App.tsx 486)
RunAIInterpretation(cap) ==
    /\ Len(data) # 0
    /\ IF NothingToRequest
       THEN UNCHANGED interpReqs
       ELSE /\ Len(interpReqs) < cap
            /\ interpReqs' = Append(interpReqs, Ev("interpret", selectedWell, selectedCurves))
    /\ NoPlotEffect
    /\ NoCleanedEffect
    /\ notified' = 0
    /\ lastEvent' = Ev("runAI", selectedWell, selectedCurves)
    /\ UNCHANGED <<chatVars, deleteReqs, serverWells, wells, wellsReqs, curves, selectedWell, selectedCurves, data,
                   loading, interpretation, showAI, curveReqs, fetchReqs>>

\* runAIInterpretation after its await resolves (App.tsx 97-98)
InterpOk(i, result) ==
    /\ interpretation' = result
    /\ showAI' = TRUE
    /\ interpReqs' = Remove(interpReqs, i)
    /\ PlotEffect(data, selectedCurves, interpretation')
    /\ CleanedEffect(showAI', interpretation')
    /\ notified' = 0
    /\ lastEvent' = Ev("interpOk", interpReqs[i].well, interpReqs[i].curves)
    /\ UNCHANGED <<chatVars, deleteReqs, serverWells, wells, wellsReqs, curves, selectedWell, selectedCurves, data,
                   loading, curveReqs, fetchReqs>>

\* runAIInterpretation after its await rejects (App.tsx 99-102)
InterpFail(i) ==
    /\ interpReqs' = Remove(interpReqs, i)
    /\ NoPlotEffect
    /\ NoCleanedEffect
    /\ notified' = 1
    /\ lastEvent' = Ev("interpFail", interpReqs[i].well, interpReqs[i].curves)
    /\ UNCHANGED <<chatVars, deleteReqs, serverWells, wells, wellsReqs, curves, selectedWell, selectedCurves, data,
                   loading, interpretation, showAI, curveReqs, fetchReqs>>

\* the .then of GET /wells/:id/curves never runs when the request is
\* rejected, and nothing catches the rejection (App.tsx 46-60)
CurvesFail(i) ==
    /\ curveReqs' = Remove(curveReqs, i)
    /\ NoPlotEffect
    /\ NoCleanedEffect
    /\ notified' = 0
    /\ lastEvent' = Ev("curvesFail", curveReqs[i], <<>>)
    /\ UNCHANGED <<chatVars, deleteReqs, serverWells, wells, wellsReqs, curves, selectedWell,
                   selectedCurves, data, loading, interpretation, showAI,
                   fetchReqs, interpReqs>>

\* handleDeleteWell up to its await (App.tsx 158-162).  The button is shown
\* only with a well selected (416-424) and passes selectedWell as wellId; the
\* selectedWell the handler compares with later is the one of the same render
DeleteWell(confirmed, cap) ==
    /\ selectedWell # ""
    /\ IF ~confirmed
       THEN UNCHANGED deleteReqs
       ELSE /\ Len(deleteReqs) < cap
            /\ deleteReqs' = Append(deleteReqs, [wellId |-> selectedWell,
                                                 selectedWell |-> selectedWell])
    /\ NoPlotEffect
    /\ NoCleanedEffect
    /\ notified' = 0
    /\ lastEvent' = Ev(IF confirmed THEN "deleteWell" ELSE "deleteCancelled",
                       selectedWell, <<>>)
    /\ UNCHANGED <<chatVars, serverWells, wells, wellsReqs, curves, selectedWell,
                   selectedCurves, data, loading, interpretation, showAI,
                   curveReqs, fetchReqs, interpReqs>>

\* handleDeleteWell after DELETE resolves (App.tsx 163-168): the resets, the
\* call of loadWells, then the render; the selectedWell effect returns at 38
\* and the plot effect runs on the new data array
DeleteOk(i) ==
    LET r == deleteReqs[i]
    IN  /\ r.wellId \in Range(serverWells)
        /\ serverWells' = SelectSeq(serverWells, LAMBDA w : w # r.wellId)
        /\ deleteReqs' = Remove(deleteReqs, i)
        /\ IF r.selectedWell = r.wellId
           THEN /\ selectedWell' = ""
                /\ curves' = <<>>
                /\ data' = <<>>
                /\ PlotEffect(data', selectedCurves, interpretation)
           ELSE /\ UNCHANGED <<selectedWell, curves, data>>
                /\ NoPlotEffect
        /\ wellsReqs' = wellsReqs + 1
        /\ NoCleanedEffect
        /\ notified' = 0
        /\ lastEvent' = Ev("deleteOk", r.wellId, <<>>)
        /\ UNCHANGED <<chatVars, wells, selectedCurves, loading, interpretation, showAI,
                       curveReqs, fetchReqs, interpReqs>>

\* handleDeleteWell after DELETE rejects (App.tsx 169-172)
DeleteFail(i) ==
    /\ deleteReqs' = Remove(deleteReqs, i)
    /\ NoPlotEffect
    /\ NoCleanedEffect
    /\ notified' = 1
    /\ lastEvent' = Ev("deleteFail", deleteReqs[i].wellId, <<>>)
    /\ UNCHANGED <<chatVars, serverWells, wells, wellsReqs, curves, selectedWell,
                   selectedCurves, data, loading, interpretation, showAI,
                   curveReqs, fetchReqs, interpReqs>>

(***************************************************************************)
(* The chat (App.tsx 106-133, 599-628).  Texts are sequences of            *)
(* characters.                                                             *)
(***************************************************************************)
\* what the operator may type
ChatTexts == {<<>>, <<" ">>, <<"h", "i">>, <<" ", "h">>}

\* what the backend may put in res.data.reply: nothing, or a text
Replies == {<<>>, <<"o", "k">>}

\* String.prototype.trim
RECURSIVE TrimStart(_)
TrimStart(text) ==
    IF Len(text) > 0 /\ text[1] = " " THEN TrimStart(Tail(text)) ELSE text

RECURSIVE TrimEnd(_)
TrimEnd(text) ==
    IF Len(text) > 0 /\ text[Len(text)] = " "
    THEN TrimEnd(SubSeq(text, 1, Len(text) - 1)) ELSE text

Trim(text) == TrimEnd(TrimStart(text))

\* !chatInput.trim() || !selectedWell
SendRefused == Len(Trim(chatInput)) = 0 \/ selectedWell = ""

\* chat input onChange (App.tsx 604); the input is disabled without a well
SetChatInput(text) ==
    /\ selectedWell # ""
    /\ text # chatInput
    /\ chatInput' = text
    /\ NoPlotEffect
    /\ NoCleanedEffect
    /\ notified' = 0
    /\ lastEvent' = Ev("chatInput", selectedWell, <<>>)
    /\ UNCHANGED <<chatMessages, chatLoading, chatReqs, deleteReqs, serverWells, wells,
                   wellsReqs, curves, selectedWell, selectedCurves, data, loading,
                   interpretation, showAI, curveReqs, fetchReqs, interpReqs>>

\* sendChatMessage up to its await (App.tsx 106-119), from the Send button
\* or the Enter key, both disabled without a well; the request remembers the
\* place of its user message in the log
SendChatMessage(sends, cap) ==
    /\ selectedWell # ""
    /\ IF SendRefused
       THEN UNCHANGED chatVars
       ELSE /\ Len(SelectSeq(chatMessages, LAMBDA m : m.sender = "user")) < sends
            /\ Len(chatReqs) < cap
            /\ chatMessages' = Append(chatMessages, [sender |-> "user", text |-> chatInput])
            /\ chatInput' = <<>>
            /\ chatLoading' = TRUE
            /\ chatReqs' = Append(chatReqs, [well |-> selectedWell, message |-> chatInput,
                                             at |-> Len(chatMessages) + 1])
    /\ NoPlotEffect
    /\ NoCleanedEffect
    /\ notified' = 0
    /\ lastEvent' = Ev(IF SendRefused THEN "sendRefused" ELSE "sendChat", selectedWell, <<>>)
    /\ UNCHANGED <<deleteReqs, serverWells, wells, wellsReqs, curves, selectedWell,
                   selectedCurves, data, loading, interpretation, showAI,
                   curveReqs, fetchReqs, interpReqs>>

\* res.data.reply || "No response"
BotText(reply) == IF Len(reply) = 0 THEN <<"No response">> ELSE reply

\* sendChatMessage after its await resolves (App.tsx 121-124, 131)
ChatOk(i, reply) ==
    /\ chatMessages' = Append(chatMessages, [sender |-> "bot", text |-> BotText(reply)])
    /\ chatLoading' = FALSE
    /\ chatReqs' = Remove(chatReqs, i)
    /\ UNCHANGED chatInput
    /\ NoPlotEffect
    /\ NoCleanedEffect
    /\ notified' = 0
    /\ lastEvent' = Ev("chatOk", chatReqs[i].well, <<>>)
    /\ UNCHANGED <<deleteReqs, serverWells, wells, wellsReqs, curves, selectedWell,
                   selectedCurves, data, loading, interpretation, showAI,
                   curveReqs, fetchReqs, interpReqs>>

\* a failure that leaves the log as it is
ChatFailSilent(i) ==
    /\ chatLoading' = FALSE
    /\ chatReqs' = Remove(chatReqs, i)
    /\ UNCHANGED <<chatInput, chatMessages>>
    /\ NoPlotEffect
    /\ NoCleanedEffect
    /\ notified' = 0
    /\ lastEvent' = Ev("chatFail", chatReqs[i].well, <<>>)
    /\ UNCHANGED <<deleteReqs, serverWells, wells, wellsReqs, curves, selectedWell,
                   selectedCurves, data, loading, interpretation, showAI,
                   curveReqs, fetchReqs, interpReqs>>

\* sendChatMessage after its await rejects (App.tsx 125-131)
ChatFail(i) ==
    /\ chatMessages' = Append(chatMessages,
                              [sender |-> "bot", text |-> <<"Chat processing failed.">>])
    /\ chatLoading' = FALSE
    /\ chatReqs' = Remove(chatReqs, i)
    /\ UNCHANGED chatInput
    /\ NoPlotEffect
    /\ NoCleanedEffect
    /\ notified' = 0
    /\ lastEvent' = Ev("chatFail", chatReqs[i].well, <<>>)
    /\ UNCHANGED <<deleteReqs, serverWells, wells, wellsReqs, curves, selectedWell,
                   selectedCurves, data, loading, interpretation, showAI,
                   curveReqs, fetchReqs, interpReqs>>

(***************************************************************************)
(* Spec: two wells that share the curve GR, with requests racing the       *)
(* operator's well and curve changes.                                      *)
(***************************************************************************)
Init == InitWith(<<"W1", "W2">>)

Next ==
    \/ WellsOk(MaxPending)
    \/ \E w \in {""} \cup Range(wells) : SelectWell(w, MaxPending)
    \/ \E i \in 1..Len(curveReqs) : CurvesOk(i)
    \/ \E c \in CurveNames : ToggleCurve(c)
    \/ FetchData(1)
    \/ \E i \in 1..Len(fetchReqs) :
          \E b \in SessionBatches(fetchReqs[i].curves) : FetchOk(i, b)
    \/ \E i \in 1..Len(fetchReqs) : FetchFail(i)

Spec == Init /\ [][Next]_vars

(***************************************************************************)
(* SpecLoad: a well with one selectable curve and a well with none, with  *)
(* Load Data clicked while fetches are pending.                            *)
(***************************************************************************)
InitLoad == InitWith(<<"W2", "W4">>)

NextLoad ==
    \/ WellsOk(1)
    \/ \E w \in {""} \cup Range(wells) : SelectWell(w, 1)
    \/ \E i \in 1..Len(curveReqs) : CurvesOk(i)
    \/ \E c \in CurveNames : ToggleCurve(c)
    \/ FetchData(MaxPending)
    \/ \E i \in 1..Len(fetchReqs) :
          \E b \in Batches(fetchReqs[i].curves) : FetchOk(i, b)
    \/ \E i \in 1..Len(fetchReqs) : FetchFail(i)

SpecLoad == InitLoad /\ [][NextLoad]_vars

(***************************************************************************)
(* SpecSel: a well with four selectable curves.                            *)
(***************************************************************************)
InitSel == InitWith(<<"W3">>)

NextSel ==
    \/ WellsOk(1)
    \/ \E w \in {""} \cup Range(wells) : SelectWell(w, 1)
    \/ \E i \in 1..Len(curveReqs) : CurvesOk(i)
    \/ \E c \in CurveNames : ToggleCurve(c)
    \/ FetchData(1)
    \/ \E i \in 1..Len(fetchReqs) :
          \E b \in WellBatch(fetchReqs[i].well) : FetchOk(i, b)

SpecSel == InitSel /\ [][NextSel]_vars

(***************************************************************************)
(* SpecInterp: one well with one selectable curve, every batch content,    *)
(* interpretation requests, and requests that fail.                        *)
(***************************************************************************)
InitInterp == InitWith(<<"W2">>)

NextInterp ==
    \/ WellsOk(1)
    \/ \E w \in {""} \cup Range(wells) : SelectWell(w, 1)
    \/ \E i \in 1..Len(curveReqs) : CurvesOk(i)
    \/ \E c \in CurveNames : ToggleCurve(c)
    \/ FetchData(1)
    \/ \E i \in 1..Len(fetchReqs) :
          \E b \in Batches(fetchReqs[i].curves) : FetchOk(i, b)
    \/ \E i \in 1..Len(fetchReqs) : FetchFail(i)
    \/ RunAIInterpretation(1)
    \/ \E i \in 1..Len(interpReqs) :
          \E r \in Interpretations(interpReqs[i].curves) : InterpOk(i, r)
    \/ \E i \in 1..Len(interpReqs) : InterpFail(i)

SpecInterp == InitInterp /\ [][NextInterp]_vars

(***************************************************************************)
(* SpecPlot: the plot effect as a function of the render it follows.  A    *)
(* render of well W1 has committed, with any selection, sample store,      *)
(* interpretation and cache contents, and its plot effect has yet to run.  *)
(***************************************************************************)
\* sequences of distinct names of S
Selections(S) == {sel \in SeqsUpTo(S, Cardinality(S)) :
                    \A i, j \in 1..Len(sel) : i # j => sel[i] # sel[j]}

\* stores whose stations ascend from depth 1, or repeat one station at
\* depth 1
PlotBatches(cs) ==
    {b \in SeqsUpTo(Samples(cs, 1..MaxPlotLen, Cells), MaxPlotLen) :
        \/ \A i \in 1..Len(b) : b[i].depth = i
        \/ \A i \in 1..Len(b) : b[i].depth = 1 /\ b[i] = b[1]}

\* what stats may hold for a curve: no spikeDepths, an empty list, or some
\* stations
SpikeLists ==
    {[hasSpikeDepths |-> FALSE, spikeDepths |-> <<>>],
     [hasSpikeDepths |-> TRUE, spikeDepths |-> <<>>],
     [hasSpikeDepths |-> TRUE, spikeDepths |-> <<1>>],
     [hasSpikeDepths |-> TRUE, spikeDepths |-> <<2, 1>>]}

PlotInterpretations(cs) ==
    {NoInterpretation,
     [isNull |-> FALSE, hasStats |-> FALSE, stats |-> [c \in {} |-> <<>>],
      cleanedCurves |-> NoCleaned]}
    \cup {[isNull |-> FALSE, hasStats |-> TRUE, stats |-> f,
            cleanedCurves |-> NoCleaned] :
            f \in UNION {[S -> SpikeLists] : S \in SUBSET Range(cs)}}

\* cache contents left by earlier renders
PriorRanges(cs) ==
    {r \in [CurveNames -> {<<>>, <<5, 15>>}] :
        \A c \in CurveNames : c \notin Range(cs) => r[c] = <<>>}

InitPlot ==
    LET cs == SelectSeq(CurveList("W1"), Selectable)
    IN  /\ serverWells = <<"W1">>
        /\ wells = <<"W1">>
        /\ wellsReqs = 0
        /\ curves = cs
        /\ selectedWell = "W1"
        /\ selectedCurves \in Selections(Range(cs))
        /\ data \in PlotBatches(cs)
        /\ loading = FALSE
        /\ \/ interpretation \in PlotInterpretations(cs) /\ axisRanges = NoRanges
           \/ interpretation = NoInterpretation /\ axisRanges \in PriorRanges(cs)
        /\ showAI = ~interpretation.isNull
        /\ curveReqs = <<>>
        /\ fetchReqs = <<>>
        /\ interpReqs = <<>>
        /\ deleteReqs = <<>>
        /\ chatMessages = <<>>
        /\ chatInput = <<>>
        /\ chatLoading = FALSE
        /\ chatReqs = <<>>
        /\ chart = NoChart
        /\ rendered = FALSE
        /\ cleanedChart = NoCleanedChart
        /\ cleanedRendered = FALSE
        /\ notified = 0
        /\ lastEvent = Ev("commit", "", <<>>)

\* the plot effect of the committed render (App.tsx 175-299)
RunPlotEffect ==
    /\ lastEvent.op = "commit"
    /\ PlotEffect(data, selectedCurves, interpretation)
    /\ NoCleanedEffect
    /\ notified' = 0
    /\ lastEvent' = Ev("plotEffect", "", <<>>)
    /\ UNCHANGED <<chatVars, deleteReqs, serverWells, wells, wellsReqs, curves, selectedWell,
                   selectedCurves, data, loading, interpretation, showAI,
                   curveReqs, fetchReqs, interpReqs>>

NextPlot == RunPlotEffect

SpecPlot == InitPlot /\ [][NextPlot]_vars

(***************************************************************************)
(* SpecClean: the effects of the render that follows a new interpretation. *)
(* A render has committed with any cleanedCurves in the interpretation,    *)
(* with or without a selection, and its effects have yet to run.           *)
(***************************************************************************)
\* what an entry of cleanedCurves may hold in a field: nothing, an empty
\* array, or the array given
Field(array) ==
    {[has |-> FALSE, array |-> <<>>], [has |-> TRUE, array |-> <<>>],
     [has |-> TRUE, array |-> array]}

CleanedEntries(names) ==
    {[name |-> n, hasDepths |-> d.has, depths |-> d.array,
      hasValues |-> v.has, values |-> v.array] :
        n \in names, d \in Field(<<1, 2>>), v \in Field(<<5, 15>>)}

\* the keys of an object are distinct
CleanedCurves(names) ==
    {[present |-> TRUE, entries |-> e] :
        e \in {x \in SeqsUpTo(CleanedEntries(names), MaxCleaned) :
                 \A i, j \in 1..Len(x) : i # j => x[i].name # x[j].name}}

CleanedInterpretations(names) ==
    {[isNull |-> FALSE, hasStats |-> FALSE, stats |-> [c \in {} |-> <<>>],
      cleanedCurves |-> cc] : cc \in {NoCleaned} \cup CleanedCurves(names)}

InitClean ==
    /\ serverWells = <<"W3">>
    /\ wells = <<"W3">>
    /\ wellsReqs = 0
    /\ curves = SelectSeq(CurveList("W3"), Selectable)
    /\ selectedWell = "W3"
    /\ selectedCurves \in {<<>>, <<"GR">>}
    /\ data = <<[depth |-> 1, values |-> [c \in {"GR"} |-> Num(5)]]>>
    /\ loading = FALSE
    /\ interpretation \in CleanedInterpretations({"GR", "RHOB", "NPHI"})
    /\ showAI = TRUE
    /\ axisRanges = [NoRanges EXCEPT !["GR"] = <<5, 5>>]
    /\ curveReqs = <<>>
    /\ fetchReqs = <<>>
    /\ interpReqs = <<>>
    /\ deleteReqs = <<>>
    /\ chatMessages = <<>>
    /\ chatInput = <<>>
    /\ chatLoading = FALSE
    /\ chatReqs = <<>>
    /\ chart = PlotOf(data, <<"GR">>, NoInterpretation, axisRanges)
    /\ rendered = FALSE
    /\ cleanedChart = NoCleanedChart
    /\ cleanedRendered = FALSE
    /\ notified = 0
    /\ lastEvent = Ev("commit", "", <<>>)

\* the plot effect and the cleaned-curve effect of the committed render
\* (App.tsx 175-372)
RunInterpretationEffects ==
    /\ lastEvent.op = "commit"
    /\ PlotEffect(data, selectedCurves, interpretation)
    /\ CleanedEffect(showAI, interpretation)
    /\ notified' = 0
    /\ lastEvent' = Ev("effects", "", <<>>)
    /\ UNCHANGED <<chatVars, deleteReqs, serverWells, wells, wellsReqs, curves, selectedWell,
                   selectedCurves, data, loading, interpretation, showAI,
                   curveReqs, fetchReqs, interpReqs>>

NextClean == RunInterpretationEffects

SpecClean == InitClean /\ [][NextClean]_vars

(***************************************************************************)
(* SpecDelete: one well with one selectable curve, which the operator may  *)
(* delete; requests for a well the backend no longer lists are rejected.   *)
(***************************************************************************)
InitDelete == InitWith(<<"W2">>)

Listed(w) == w \in Range(serverWells)

NextDelete ==
    \/ WellsOk(1)
    \/ \E w \in {""} \cup Range(wells) : SelectWell(w, 1)
    \/ \E i \in 1..Len(curveReqs) : Listed(curveReqs[i]) /\ CurvesOk(i)
    \/ \E i \in 1..Len(curveReqs) : CurvesFail(i)
    \/ \E c \in CurveNames : ToggleCurve(c)
    \/ FetchData(1)
    \/ \E i \in 1..Len(fetchReqs) :
          /\ Listed(fetchReqs[i].well)
          /\ \E b \in SessionBatches(fetchReqs[i].curves) : FetchOk(i, b)
    \/ \E i \in 1..Len(fetchReqs) : FetchFail(i)
    \/ \E confirmed \in BOOLEAN : DeleteWell(confirmed, 1)
    \/ \E i \in 1..Len(deleteReqs) : DeleteOk(i)
    \/ \E i \in 1..Len(deleteReqs) : DeleteFail(i)

SpecDelete == InitDelete /\ [][NextDelete]_vars

(***************************************************************************)
(* SpecChat: one well, and the chat with requests that overlap, succeed    *)
(* and fail.                                                               *)
(***************************************************************************)
InitChat == InitWith(<<"W4">>)

NextChat ==
    \/ WellsOk(1)
    \/ \E w \in {""} \cup Range(wells) : SelectWell(w, 1)
    \/ \E i \in 1..Len(curveReqs) : CurvesOk(i)
    \/ \E text \in ChatTexts : SetChatInput(text)
    \/ SendChatMessage(MaxSends, MaxPending)
    \/ \E i \in 1..Len(chatReqs) : \E reply \in Replies : ChatOk(i, reply)
    \/ \E i \in 1..Len(chatReqs) : ChatFail(i)

SpecChat == InitChat /\ [][NextChat]_vars

(***************************************************************************)
(* Properties.                                                             *)
(***************************************************************************)
\* the numbers curve c holds in store d
NumbersOf(d, c) ==
    {d[i].values[c][2] :
        i \in {j \in 1..Len(d) : c \in DOMAIN d[j].values
                                 /\ d[j].values[c][1] = "number"}}

SetMin(S) == CHOOSE m \in S : \A x \in S : m <= x
SetMax(S) == CHOOSE m \in S : \A x \in S : m >= x

\* C1: once a range is stored in the cache for a curve, no step (data load,
\* curve toggle, interpretation result, ...) changes the stored pair
AxisRangeStable ==
    [][\A c \in CurveNames :
          axisRanges[c] # <<>> => axisRanges'[c] = axisRanges[c]]_vars

\* a chart was just built while GR, cached as [5, 5], holds 15 in the store
AxisRangeStableWitness ==
    /\ rendered
    /\ axisRanges["GR"] = <<5, 5>>
    /\ 15 \in NumbersOf(data, "GR")

\* C2: a step that changes the selected well from one well to another
\* empties the axis-range cache and the sample store
WellChangeDiscards ==
    [][(selectedWell # "" /\ selectedWell' # "" /\ selectedWell' # selectedWell)
          => (axisRanges' = NoRanges /\ data' = <<>>)]_vars

\* C3: a data or curve-list response whose request was issued for another
\* well or another selection than the current one changes neither the sample
\* store, the selection nor the cache, and raises no alert
StaleResponseIgnored ==
    [][(\/ /\ lastEvent'.op = "fetchOk"
           /\ (lastEvent'.well # selectedWell \/ lastEvent'.curves # selectedCurves)
        \/ /\ lastEvent'.op = "curvesOk"
           /\ lastEvent'.well # selectedWell)
          => (/\ data' = data
              /\ selectedCurves' = selectedCurves
              /\ axisRanges' = axisRanges
              /\ NoCleanedEffect
              /\ notified' = 0)]_vars

\* C4: at most one data-fetch request is outstanding
OneFetchOutstanding == Len(fetchReqs) <= 1

\* C5: once the curve list of the selected well is loaded and it holds a
\* selectable curve, the selection holds 1 to 3 distinct curve names
SelectionSize ==
    (/\ selectedWell # ""
     /\ curveReqs = <<>>
     /\ Len(curves) > 0
     /\ Range(curves) \subseteq Range(CurveList(selectedWell)))
        => (/\ Len(selectedCurves) \in 1..3
            /\ Cardinality(Range(selectedCurves)) = Len(selectedCurves))

\* C6: checking a curve while the selection holds 3 curves leaves the
\* selection, the sample store and the cache as they are and raises no alert
FourthCurveIgnored ==
    [][(lastEvent'.op = "check" /\ Len(selectedCurves) = 3)
          => (/\ selectedCurves' = selectedCurves
              /\ data' = data
              /\ axisRanges' = axisRanges
              /\ NoCleanedEffect
              /\ notified' = 0)]_vars

\* a fourth box was just checked with a store and a cache that hold GR
FourthCurveIgnoredWitness ==
    /\ lastEvent.op = "check"
    /\ Len(selectedCurves) = 3
    /\ ~Includes(selectedCurves, lastEvent.curves[1])
    /\ Len(data) > 0
    /\ axisRanges["GR"] # <<>>

\* C7: a step that leaves the store without a number for an uncached curve
\* stores no range for it, and a selected curve with a number in the store
\* always has its range stored
RetryLaw ==
    /\ [][\A c \in CurveNames :
             (axisRanges[c] = <<>> /\ NumbersOf(data', c) = {})
                => axisRanges'[c] = <<>>]_vars
    /\ [](\A c \in Range(selectedCurves) :
             NumbersOf(data, c) # {} => axisRanges[c] # <<>>)

\* a chart was just built from a store with no number for the selected GR,
\* nothing is cached for GR, and the next batch is on its way
RetryLawWitness ==
    /\ rendered
    /\ selectedCurves = <<"GR">>
    /\ Len(data) > 0
    /\ NumbersOf(data, "GR") = {}
    /\ axisRanges["GR"] = <<>>
    /\ Len(fetchReqs) > 0

\* C8: a range newly stored for a curve is [min, max] over the numbers the
\* curve holds in the store of that render, the curve being selected; and
\* every stored range has min <= max
RangeValue ==
    /\ [][\A c \in CurveNames :
             (axisRanges[c] = <<>> /\ axisRanges'[c] # <<>>)
                => (/\ Includes(selectedCurves', c)
                    /\ NumbersOf(data', c) # {}
                    /\ axisRanges'[c] = <<SetMin(NumbersOf(data', c)),
                                          SetMax(NumbersOf(data', c))>>)]_vars
    /\ [](\A c \in CurveNames :
             axisRanges[c] # <<>> => axisRanges[c][1] <= axisRanges[c][2])

\* the effect stored [5, 15] for RHOB from a store in which GR is null
RangeValueWitness ==
    /\ lastEvent.op = "plotEffect"
    /\ selectedCurves = <<"GR", "RHOB">>
    /\ axisRanges["RHOB"] = <<5, 15>>
    /\ axisRanges["GR"] = <<5, 5>>
    /\ \E i \in 1..Len(data) : ValueOf(data[i], "GR") = Null

\* C9: with an empty selection no chart is built
EmptySelectionNoChart == Len(selectedCurves) = 0 => ~rendered

\* C10: a chart just built holds exactly one line trace per selected curve,
\* in selection order, with x the depths of the store in order and y the
\* curve's value at each station (undefined where the station lacks it)
LinesOf(traces) == SelectSeq(traces, LAMBDA t : t.mode = "lines")

LineTraces ==
    rendered =>
        /\ Len(LinesOf(chart.traces)) = Len(selectedCurves)
        /\ \A i \in 1..Len(selectedCurves) :
              LET t == LinesOf(chart.traces)[i]
              IN  /\ t.name = <<selectedCurves[i], "">>
                  /\ Len(t.x) = Len(data)
                  /\ Len(t.y) = Len(data)
                  /\ \A k \in 1..Len(data) :
                        /\ t.x[k] = data[k].depth
                        /\ t.y[k] = IF selectedCurves[i] \in DOMAIN data[k].values
                                    THEN data[k].values[selectedCurves[i]]
                                    ELSE Undefined

\* a chart of two curves was built, the first without any number, and it
\* holds a marker trace besides the two lines
LineTracesWitness ==
    /\ rendered
    /\ selectedCurves = <<"RHOB", "GR">>
    /\ NumbersOf(data, "RHOB") = {}
    /\ Len(data) = MaxPlotLen
    /\ Len(chart.traces) = 3

\* C11: in a chart just built, the line trace of every selected curve whose
\* spikeDepths is non-empty is followed at once by one marker trace, whose
\* points are the stations of the store whose depth equals a member of
\* spikeDepths, in store order; the line trace of a curve with empty or
\* absent spikeDepths is followed by no marker trace
SpikesFor(c) ==
    IF /\ ~interpretation.isNull
       /\ interpretation.hasStats
       /\ c \in DOMAIN interpretation.stats
       /\ interpretation.stats[c].hasSpikeDepths
    THEN Range(interpretation.stats[c].spikeDepths) ELSE {}

\* the marker traces of the curves before selection index i
MarkersBefore(i) ==
    Cardinality({j \in 1..(i - 1) : SpikesFor(selectedCurves[j]) # {}})

SpikeStations(c) == SelectSeq(data, LAMBDA s : s.depth \in SpikesFor(c))

SpikeMarkers ==
    rendered =>
        /\ Len(chart.traces) = Len(selectedCurves) + MarkersBefore(Len(selectedCurves) + 1)
        /\ \A i \in 1..Len(selectedCurves) :
              LET c == selectedCurves[i]
                  p == i + MarkersBefore(i)
                  pts == SpikeStations(c)
              IN  /\ chart.traces[p].mode = "lines"
                  /\ chart.traces[p].name = <<c, "">>
                  /\ IF SpikesFor(c) # {}
                     THEN LET m == chart.traces[p + 1]
                          IN  /\ m.mode = "markers"
                              /\ m.name = <<c, " Spikes">>
                              /\ Len(m.x) = Len(pts)
                              /\ Len(m.y) = Len(pts)
                              /\ \A k \in 1..Len(pts) :
                                    /\ m.x[k] = pts[k].depth
                                    /\ m.y[k] = IF c \in DOMAIN pts[k].values
                                                THEN pts[k].values[c]
                                                ELSE Undefined
                     ELSE p = Len(chart.traces) \/ chart.traces[p + 1].mode = "lines"

\* a chart of GR and RHOB was built over stations 1 and 2: GR has a spike
\* at station 1 only, RHOB has none
SpikeMarkersWitness ==
    /\ rendered
    /\ selectedCurves = <<"GR", "RHOB">>
    /\ Len(data) >= 2
    /\ data[1].depth = 1
    /\ data[2].depth = 2
    /\ SpikesFor("GR") = {1}
    /\ SpikesFor("RHOB") = {}
    /\ Len(chart.traces) = 3
    /\ Len(chart.traces[2].x) = 1

\* C14: in every chart built the axis of index 0 shows grid lines and is on
\* the left; every axis of index >= 1 shows none, overlays the primary axis
\* and is on the right when its index is odd, on the left when even
GridLines ==
    /\ rendered => Len(chart.axes) = Len(selectedCurves)
    /\ chart.built =>
          \A i \in 1..Len(chart.axes) :
              LET a == chart.axes[i]
                  index == i - 1
              IN  IF index = 0
                  THEN a.showgrid /\ a.side = "left" /\ a.overlaying = "undefined"
                  ELSE /\ ~a.showgrid
                       /\ a.overlaying = "y"
                       /\ a.side = IF index % 2 = 1 THEN "right" ELSE "left"

\* a chart of three curves was just built
GridLinesWitness ==
    /\ rendered
    /\ Len(selectedCurves) = 3
    /\ Len(chart.axes) = 3

\* C15: in a chart just built, the axis of a curve with a cached range is
\* locked to that range and non-interactive, and the axis of a curve without
\* one auto-scales and is interactive
RangePolicy ==
    rendered =>
        \A i \in 1..Len(selectedCurves) :
            LET a == chart.axes[i]
                c == selectedCurves[i]
            IN  IF axisRanges[c] # <<>>
                THEN a.range = axisRanges[c] /\ a.fixedrange /\ ~a.autorange
                ELSE a.autorange /\ ~a.fixedrange

\* C17: in every chart built, every trace of the curve at selection index i
\* references the axis identifier of i, and the chart defines an axis of that
\* identifier titled with the curve's name
AxisNumber(i) == IF i = 1 THEN 0 ELSE i

TraceAxisConsistent ==
    rendered =>
        \A k \in 1..Len(chart.traces) :
            LET t == chart.traces[k]
            IN  \E i \in 1..Len(selectedCurves) :
                    /\ selectedCurves[i] = t.name[1]
                    /\ t.yaxis = <<"y", AxisNumber(i)>>
                    /\ \E j \in 1..Len(chart.axes) :
                          /\ chart.axes[j].key = <<"yaxis", AxisNumber(i)>>
                          /\ chart.axes[j].title = t.name[1]

\* a chart of two curves was built with a marker trace on the second axis
TraceAxisConsistentWitness ==
    /\ rendered
    /\ Len(selectedCurves) = 2
    /\ \E k \in 1..Len(chart.traces) :
          /\ chart.traces[k].mode = "markers"
          /\ chart.traces[k].yaxis = <<"y", 2>>

\* C13: a data fetch or interpretation request that fails leaves the sample
\* store, the cache and the interpretation as they were and raises exactly
\* one alert
FailureKeepsState ==
    [][lastEvent'.op \in {"fetchFail", "interpFail"}
          => (/\ data' = data
              /\ axisRanges' = axisRanges
              /\ interpretation' = interpretation
              /\ notified' = 1)]_vars

\* a data fetch just failed over a non-empty store, a cached range and an
\* interpretation
FailureKeepsStateWitness ==
    /\ lastEvent.op = "fetchFail"
    /\ Len(data) > 0
    /\ axisRanges["GR"] # <<>>
    /\ ~interpretation.isNull
    /\ notified = 1

\* C18: the loading flag is true exactly when a data fetch is outstanding
LoadingTracksFetches == loading <=> (Len(fetchReqs) > 0)

\* C12: after the cleaned-curve effect ran, the overlay holds one line trace
\* per entry of cleanedCurves whose depths and values are both present and
\* non-empty, in the entries' order, whatever the selection; and when there
\* is no such entry no overlay was drawn
UsableEntries(interp) ==
    SelectSeq(interp.cleanedCurves.entries,
              LAMBDA e : /\ e.hasDepths /\ Len(e.depths) > 0
                         /\ e.hasValues /\ Len(e.values) > 0)

CleanedOverlay ==
    lastEvent.op = "effects" =>
        LET want == UsableEntries(interpretation)
        IN  IF Len(want) = 0
            THEN ~cleanedRendered /\ ~cleanedChart.built
            ELSE /\ cleanedRendered
                 /\ Len(cleanedChart.traces) = Len(want)
                 /\ \A i \in 1..Len(want) :
                       /\ cleanedChart.traces[i].mode = "lines"
                       /\ cleanedChart.traces[i].name[1] = want[i].name
                       /\ cleanedChart.traces[i].x = want[i].depths
                       /\ cleanedChart.traces[i].y = want[i].values

\* C16: the chart on display shows the current sample store, selection and
\* interpretation: one line per selected curve over the stations of the
\* store, and as many marker traces as selected curves have spikes
DisplayedChartCurrent ==
    chart.built =>
        /\ Len(LinesOf(chart.traces)) = Len(selectedCurves)
        /\ Len(chart.traces) - Len(LinesOf(chart.traces))
              = MarkersBefore(Len(selectedCurves) + 1)
        /\ \A i \in 1..Len(selectedCurves) :
              LET t == LinesOf(chart.traces)[i]
              IN  /\ t.name[1] = selectedCurves[i]
                  /\ t.x = Depths(data)
                  /\ t.y = Column(data, selectedCurves[i])

\* C19: an accepted send (non-blank input, a well selected) appends one user
\* message holding the input; the completion of a chat request, by success
\* or failure, appends one bot message, after the user message of that
\* request; no step removes or reorders a message of the log; the user
\* messages outnumber the bot messages by the requests outstanding, so the
\* two are as many when none is outstanding
NonBlank(text) == \E k \in 1..Len(text) : text[k] # " "

Count(log, sender) == Len(SelectSeq(log, LAMBDA m : m.sender = sender))

ChatPairing ==
    /\ [][/\ Len(chatMessages') >= Len(chatMessages)
          /\ SubSeq(chatMessages', 1, Len(chatMessages)) = chatMessages]_vars
    /\ [][(lastEvent'.op \in {"sendChat", "sendRefused"}
              /\ NonBlank(chatInput) /\ selectedWell # "")
             => (/\ chatMessages' = Append(chatMessages,
                                           [sender |-> "user", text |-> chatInput])
                 /\ Len(chatReqs') = Len(chatReqs) + 1)]_vars
    /\ [][lastEvent'.op \in {"chatOk", "chatFail"}
             => \E i \in 1..Len(chatReqs) :
                   /\ chatReqs' = Remove(chatReqs, i)
                   /\ chatMessages[chatReqs[i].at] =
                         [sender |-> "user", text |-> chatReqs[i].message]
                   /\ Len(chatMessages') = Len(chatMessages) + 1
                   /\ chatMessages'[Len(chatMessages')].sender = "bot"]_vars
    /\ [](Count(chatMessages, "user") - Count(chatMessages, "bot") = Len(chatReqs))

\* two sends overlapped and both requests have completed, the last by a
\* failure: the log reads user, user, bot, bot
ChatPairingWitness ==
    /\ Len(chatMessages) = 4
    /\ chatMessages[1].sender = "user"
    /\ chatMessages[2].sender = "user"
    /\ chatMessages[3].sender = "bot"
    /\ chatMessages[4].text = <<"Chat processing failed.">>
    /\ chatReqs = <<>>
    /\ lastEvent.op = "chatFail"

====
